---- MODULE Spec2Model ----
(***************************************************************************)
(* Blue-noise stippling (modified void-and-cluster).                       *)
(*                                                                         *)
(* Model of src/stippling_functions.py (toroidal_gaussian_kernel,          *)
(* void_and_cluster), src/importance_map.py (compute_importance) and       *)
(* src/step5_create_masked.py (create_masked_stipple).                     *)
(*                                                                         *)
(* Numbers.  Pixel values, importances and parameters are fixed-point      *)
(* thousandths (One = 1.0).  Gaussians, kernel entries, energies and noise *)
(* are fixed-point millionths (Micro = 1.0), so that a product of two      *)
(* thousandths is an energy.  +inf is the absorbing value Inf.             *)
(* A grid is a record [h, w, v] with v indexed by the row-major flat       *)
(* index 0 .. h*w-1, which is the index np.argmin returns.                 *)
(***************************************************************************)
EXTENDS Integers, Sequences, FiniteSets

\* ------------------------------------------------------------------ numbers

\* The float 1.0 in thousandths.
One == 1000

\* The float 1.0 in millionths.
Micro == One * One

\* np.inf: larger than every finite energy, absorbing under addition.
Inf == 2000 * Micro

Min2(a, b) == IF a <= b THEN a ELSE b

Max2(a, b) == IF a >= b THEN a ELSE b

SetMin(S) == CHOOSE x \in S : \A y \in S : x <= y

SetMax(S) == CHOOSE x \in S : \A y \in S : x >= y

\* IEEE addition restricted to finite values and +inf.
AddF(a, b) == IF a = Inf \/ b = Inf THEN Inf ELSE a + b

\* Python's int(): truncation toward zero of n / d, d > 0.
IntTrunc(n, d) == IF n >= 0 THEN n \div d ELSE -((-n) \div d)

\* exp(-k/2) in millionths, k = 0 .. 29.
ExpTable ==
    << 1000000, 606531, 367879, 223130, 135335, 82085, 49787, 30197, 18316,
       11109, 6738, 4087, 2479, 1503, 912, 553, 335, 203, 123, 75, 45, 28,
       17, 10, 6, 4, 2, 1, 1, 1 >>

\* np.exp(-x), x >= 0 in thousandths, result in millionths: the table,
\* interpolated linearly; 0 once the result is below one millionth.
ExpNeg(x) ==
    LET k == x \div 500
        f == x % 500
    IN  IF k >= Len(ExpTable) - 1 THEN 0
        ELSE ExpTable[k + 1] - ((ExpTable[k + 1] - ExpTable[k + 2]) * f) \div 500

\* ------------------------------------------------------------------- grids

Cells(g) == 0 .. (g.h * g.w - 1)

Size(g) == g.h * g.w

Shape(g) == <<g.h, g.w>>

Values(g) == {g.v[c] : c \in Cells(g)}

\* The absent optional argument (importance_img = None).
NoneGrid == [h |-> -1, w |-> -1, v |-> <<>>]

Full(h, w, x) == [h |-> h, w |-> w, v |-> [c \in 0 .. (h * w - 1) |-> x]]

\* np.clip(g, lo, hi)
Clip(g, lo, hi) ==
    [g EXCEPT !.v = [c \in Cells(g) |-> Max2(lo, Min2(hi, g.v[c]))]]

SliceMut(g, y0, y1, x0, x1) ==
    LET ya == Min2(y0, g.h - 1)
        yb == Max2(ya + 1, Min2(y1, g.h))
        xa == Min2(x0, g.w - 1)
        xb == Max2(xa + 1, Min2(x1, g.w))
        hh == yb - ya
        ww == xb - xa
    IN  [h |-> hh, w |-> ww,
         v |-> [c \in 0 .. (hh * ww - 1) |->
                   g.v[(ya + (c \div ww)) * g.w + (xa + (c % ww))]]]

\* g[y0:y1, x0:x1] for non-negative bounds: each stop and start is cut to the
\* axis length, and an empty range gives an axis of length 0.
Slice(g, y0, y1, x0, x1) ==
    LET ya == Min2(y0, g.h)
        yb == Max2(ya, Min2(y1, g.h))
        xa == Min2(x0, g.w)
        xb == Max2(xa, Min2(x1, g.w))
        hh == yb - ya
        ww == xb - xa
    IN  [h |-> hh, w |-> ww,
         v |-> [c \in 0 .. (hh * ww - 1) |->
                   g.v[(ya + (c \div ww)) * g.w + (xa + (c % ww))]]]

\* The lowest flat index of g that holds m.
FirstCell(g, m) == SetMin({c \in Cells(g) : g.v[c] = m})

\* np.argmin(g) of a non-empty grid: the lowest flat index of the minimum.
ArgMin(g) == FirstCell(g, SetMin(Values(g)))

\* np.roll(np.roll(g, shift=y, axis=0), shift=x, axis=1)
Roll(g, y, x) ==
    [g EXCEPT !.v = [c \in Cells(g) |->
        g.v[(((c \div g.w) - y) % g.h) * g.w + (((c % g.w) - x) % g.w)]]]

\* numpy's broadcasting rule for two 2-D shapes.
BroadcastOK(a, b) ==
    /\ (a.h = b.h \/ a.h = 1 \/ b.h = 1)
    /\ (a.w = b.w \/ a.w = 1 \/ b.w = 1)

\* a + b under broadcasting (BroadcastOK(a, b) holds): an axis of length 1 is
\* repeated along the other operand's axis.
BroadcastAdd(a, b) ==
    LET hh == IF a.h = 1 THEN b.h ELSE a.h
        ww == IF a.w = 1 THEN b.w ELSE a.w
        at(g, y, x) == g.v[(IF g.h = 1 THEN 0 ELSE y) * g.w
                           + (IF g.w = 1 THEN 0 ELSE x)]
    IN  [h |-> hh, w |-> ww,
         v |-> [c \in 0 .. (hh * ww - 1) |->
                   AddF(at(a, c \div ww, c % ww), at(b, c \div ww, c % ww))]]

\* g[y, x] = x0 for an index inside the grid.
SetAt(g, y, x, x0) == [g EXCEPT !.v[y * g.w + x] = x0]

InGrid(g, y, x) == 0 <= y /\ y < g.h /\ 0 <= x /\ x < g.w

\* ------------------------------------------------- toroidal_gaussian_kernel

\* (d2) / (2.0 * sigma**2) in thousandths, for a squared pixel distance d2
\* and sigma in thousandths.
KernelExponent(d2, sigma) == (d2 * 500 * One) \div ((sigma * sigma) \div One)

\* The sum of f[lo] .. f[hi], by halves.
RECURSIVE SumRange(_, _, _)
SumRange(f, lo, hi) ==
    IF lo > hi THEN 0
    ELSE IF lo = hi THEN f[lo]
    ELSE SumRange(f, lo, (lo + hi) \div 2) + SumRange(f, ((lo + hi) \div 2) + 1, hi)

\* if s > 0: kern /= s
KernelNormalize(kern, s) ==
    IF s > 0
    THEN [kern EXCEPT !.v = [c \in Cells(kern) |-> (kern.v[c] * One) \div (s \div One)]]
    ELSE kern

\* kern = np.exp(-(dx**2 + dy**2) / (2.0 * sigma**2)) with dy = min(y, h - y)
\* and dx = min(x, w - x), the toroidal distances to (0, 0).
KernelRaw(h, w, sg) ==
    [h |-> h, w |-> w,
     v |-> [c \in 0 .. (h * w - 1) |->
              ExpNeg(KernelExponent(
                  Min2(c % w, w - (c % w)) * Min2(c % w, w - (c % w))
                  + Min2(c \div w, h - (c \div w)) * Min2(c \div w, h - (c \div w)),
                  sg))]]

\* s = kern.sum()
SumOf(g) == SumRange(g.v, 0, Size(g) - 1)

\* toroidal_gaussian_kernel(h, w, sigma): the periodic Gaussian centred at
\* (0, 0), divided by its sum when the sum is positive.
toroidal_gaussian_kernel(h, w, sg) ==
    KernelNormalize(KernelRaw(h, w, sg), SumOf(KernelRaw(h, w, sg)))

\* -------------------------------------------------------- compute_importance

\* Defaults of compute_importance's parameters, in thousandths.
extreme_threshold_low == 400

extreme_threshold_high == 800

extreme_sigma == 100

mid_tone_sigma == 200

mid_tone_center == 650

DefaultExtremeDownweight == 500

DefaultMidToneBoost == 400

\* ((a - b) ** 2) / (2.0 * sigma ** 2) in thousandths; a, b, sigma in
\* thousandths.
GaussExponent(a, b, sigma) == ((a - b) * (a - b) * 500) \div (sigma * sigma)

\* g / M for M > 0, else g itself.  g in millionths, result in thousandths.
DivideByMax(g, M) ==
    IF M > 0
    THEN [g EXCEPT !.v = [c \in Cells(g) |-> (g.v[c] * One) \div M]]
    ELSE [g EXCEPT !.v = [c \in Cells(g) |-> g.v[c] \div One]]

\* if g.max() > 0: g = g / g.max()
MaxNormalize(g) == DivideByMax(g, SetMax(Values(g)))

\* (g - m) / (M - m) if M > m, else g itself.  g and the result in thousandths.
Rescale(g, m, M) ==
    IF M > m
    THEN [g EXCEPT !.v = [c \in Cells(g) |-> ((g.v[c] - m) * One) \div (M - m)]]
    ELSE g

\* m, M = g.min(), g.max(); if M > m: g = (g - m) / (M - m)
MinMaxNormalize(g) == Rescale(g, SetMin(Values(g)), SetMax(Values(g)))

\* dark_mask: the Gaussian about 0.0 where I < extreme_threshold_low, else 0.0,
\* divided by its maximum.
DarkMask(I) ==
    MaxNormalize([I EXCEPT !.v = [c \in Cells(I) |->
        IF I.v[c] < extreme_threshold_low
        THEN ExpNeg(GaussExponent(I.v[c], 0, extreme_sigma))
        ELSE 0]])

\* light_mask: the Gaussian about 1.0 where I > extreme_threshold_high, else
\* 0.0, divided by its maximum.
LightMask(I) ==
    MaxNormalize([I EXCEPT !.v = [c \in Cells(I) |->
        IF I.v[c] > extreme_threshold_high
        THEN ExpNeg(GaussExponent(I.v[c], One, extreme_sigma))
        ELSE 0]])

\* mid_tone_gaussian: the Gaussian about 0.65, divided by its maximum.
MidToneGaussian(I) ==
    MaxNormalize([I EXCEPT !.v = [c \in Cells(I) |->
        ExpNeg(GaussExponent(I.v[c], mid_tone_center, mid_tone_sigma))]])

\* importance = I_inverted * (1.0 - extreme_downweight * extreme_mask)
\* importance = importance * (1.0 + mid_tone_boost * mid_tone_gaussian)
\* with I_inverted = 1.0 - I and extreme_mask = np.maximum(dark, light).
Weighted(I, dark, light, mid, downweight, boost) ==
    [I EXCEPT !.v = [c \in Cells(I) |->
        ((((One - I.v[c])
             * (One - (downweight * Max2(dark.v[c], light.v[c])) \div One)) \div One)
           * (One + (boost * mid.v[c]) \div One)) \div One]]

\* The body of compute_importance after I = np.clip(gray_img, 0.0, 1.0).
ImportanceOf(I, downweight, boost) ==
    MinMaxNormalize(Weighted(I, DarkMask(I), LightMask(I), MidToneGaussian(I),
                             downweight, boost))

\* compute_importance(gray_img, extreme_downweight, mid_tone_boost) with the
\* thresholds and sigmas at their defaults.
compute_importance(gray, downweight, boost) ==
    ImportanceOf(Clip(gray, 0, One), downweight, boost)

\* ---------------------------------------------------------- void_and_cluster

\* Defaults of void_and_cluster's parameters, in thousandths.
sigma == 900

content_bias == 900

noise_scale_factor == 100

\* The seed window's largest half-width, and the divisor of each side.
SeedRadiusMax == 20

SeedRadiusDiv == 10

VARIABLES
    input_img,        \* argument: the grayscale grid
    percentage,       \* argument, in thousandths
    importance_img,   \* argument: a grid, or NoneGrid
    seed,             \* the caller's random seed: the stream of noise draws
    rng,              \* np.random's global state: the draws not yet consumed
    I,                \* the clipped input
    importance,       \* the importance grid
    kernel,           \* the repulsion kernel
    energy_current,   \* the persistent energy field
    final_stipple,    \* the stipple grid
    samples,          \* the sample list, entries <<y, x, intensity>>
    num_points,       \* the target count
    i,                \* the loop index of the next iteration
    exploration,      \* the last iteration's exploration factor [num, den]
    pc,               \* where the call is
    err,              \* the exception that ended the call, or "none"
    run,              \* 1 for the first call, 2 for its repetition
    first,            \* the first call's result, once it is repeated
    gray_img,         \* compute_importance: argument
    extreme_downweight, \* compute_importance: argument, in thousandths
    mid_tone_boost,   \* compute_importance: argument, in thousandths
    stipple_img,      \* create_masked_stipple: argument
    mask_img,         \* create_masked_stipple: argument
    threshold,        \* create_masked_stipple: argument, in thousandths
    masked_stipple    \* create_masked_stipple: result

vcIn == <<input_img, percentage, importance_img, seed>>

vcState == <<rng, I, importance, kernel, energy_current, final_stipple, samples,
             num_points, i, exploration>>

impVars == <<gray_img, extreme_downweight, mid_tone_boost>>

maskVars == <<stipple_img, mask_img, threshold, masked_stipple>>

vars == <<vcIn, vcState, pc, err, run, first, impVars, maskVars>>

\* A value for a variable the call has not assigned yet.
Unset == Full(0, 0, 0)

NoExploration == [num |-> 0, den |-> 1]

\* energy_splat(y, x) of the closure over kernel.
energy_splat(k, y, x) == Roll(k, y, x)

\* int(I.size * percentage)
NumPoints(size, pct) == IntTrunc(size * pct, One)

\* r = min(20, h // 10, w // 10)
SeedRadius(h, w) == Min2(SeedRadiusMax, Min2(h \div SeedRadiusDiv, w \div SeedRadiusDiv))

\* region = energy_current[ys, xs] with ys = slice(max(0, cy - r), min(h, cy + r))
\* and xs likewise, h and w being the input's.
SeedRegion(e, h, w) ==
    LET cy == h \div 2
        cx == w \div 2
        r == SeedRadius(h, w)
    IN  Slice(e, Max2(0, cy - r), Min2(h, cy + r), Max2(0, cx - r), Min2(w, cx + r))

\* y0 = flat // region.shape[1] + (cy - r); x0 = flat % region.shape[1] + (cx - r)
SeedCoord(region, h, w) ==
    LET flat == ArgMin(region)
        r == SeedRadius(h, w)
    IN  <<(flat \div region.w) + ((h \div 2) - r), (flat % region.w) + ((w \div 2) - r)>>

MarkPlacedMut(e, y, x) == e

\* energy_current[y, x] = np.inf
MarkPlaced(e, y, x) == SetAt(e, y, x, Inf)

ExplorationMut(k, n) == [num |-> 2 * n - (k - 1), den |-> 2 * n]

\* exploration = 1.0 - (i / num_points) * 0.5, as the fraction num / den
Exploration(k, n) == [num |-> 2 * n - k, den |-> 2 * n]

\* noise_scale_factor * content_bias * exploration, in millionths
NoiseStd(e) == ((noise_scale_factor * content_bias) * e.num) \div e.den

\* A draw of np.random.normal(0.0, std, size=shape): the field that is
\* d.z standard deviations at one cell and 0.0 elsewhere.
NoiseField(d, std, h, w) ==
    LET at == IF d.cell = "centre"
              THEN Max2(0, ((h \div 2) - 1) * w + (w \div 2) - 1)
              ELSE h * w - 1
    IN  [h |-> h, w |-> w,
         v |-> [c \in 0 .. (h * w - 1) |->
                   IF d.cell # "zero" /\ c = at THEN d.z * std ELSE 0]]

ZeroDraw == [cell |-> "zero", z |-> 0]

\* The draw np.random.normal makes in state r, and the state it leaves.
Draw(r) == IF r = <<>> THEN ZeroDraw ELSE Head(r)

Advance(r) == IF r = <<>> THEN r ELSE Tail(r)

Raise(e) ==
    /\ pc' = "error"
    /\ err' = e

FreshSamplesMut == samples

\* samples = []
FreshSamples == <<>>

\* importance = compute_importance(I) if importance_img is None,
\* else np.clip(importance_img, 0.0, 1.0)
ImportanceFor(img, supplied) ==
    IF supplied = NoneGrid
    THEN compute_importance(img, DefaultExtremeDownweight, DefaultMidToneBoost)
    ELSE Clip(supplied, 0, One)

\* energy_current = -importance * content_bias
EnergyOf(imp) ==
    [imp EXCEPT !.v = [c \in Cells(imp) |-> -(imp.v[c] * content_bias)]]

\* Lines 82-107: clip, importance, kernel, energy field, buffers, target count.
Setup ==
    /\ pc = "setup"
    /\ \E img \in {Clip(input_img, 0, One)} :
       \E imp \in {ImportanceFor(img, importance_img)} :
          /\ I' = img
          /\ importance' = imp
          /\ kernel' = toroidal_gaussian_kernel(img.h, img.w, sigma)
          /\ energy_current' = EnergyOf(imp)
          /\ final_stipple' = Full(img.h, img.w, One)
          /\ samples' = FreshSamples
          /\ num_points' = NumPoints(Size(img), percentage)
    /\ pc' = "seed"
    /\ UNCHANGED <<vcIn, rng, i, exploration, err, run, first, impVars, maskVars>>

\* Lines 119-123 and 138-143: splat the kernel at (y, x), mark the point as
\* placed, record the sample and the dot.
PlacePoint(y, x) ==
    \E splat \in {energy_splat(kernel, y, x)} :
        IF ~BroadcastOK(energy_current, splat)
        THEN \* operands could not be broadcast together
             /\ Raise("ValueError")
             /\ UNCHANGED <<energy_current, samples, final_stipple>>
        ELSE \E e1 \in {BroadcastAdd(energy_current, splat)} :
                IF ~InGrid(e1, y, x) \/ ~InGrid(I, y, x)
                THEN /\ Raise("IndexError")
                     /\ UNCHANGED <<energy_current, samples, final_stipple>>
                ELSE /\ energy_current' = MarkPlaced(e1, y, x)
                     /\ samples' = Append(samples, <<y, x, I.v[y * I.w + x]>>)
                     /\ final_stipple' = SetAt(final_stipple, y, x, 0)
                     /\ UNCHANGED err
                     /\ pc' = "loop"

\* Lines 109-123: the first point, the minimum of the window about the centre.
Seed ==
    /\ pc = "seed"
    /\ \E region \in {SeedRegion(energy_current, I.h, I.w)} :
        IF Size(region) = 0
        THEN \* np.argmin of an empty array
             /\ Raise("ValueError")
             /\ UNCHANGED <<energy_current, samples, final_stipple>>
        ELSE \E p \in {SeedCoord(region, I.h, I.w)} : PlacePoint(p[1], p[2])
    /\ i' = 1
    /\ UNCHANGED <<vcIn, rng, I, importance, kernel, num_points, exploration,
                   run, first, impVars, maskVars>>

\* One iteration in which the noisy field, not the persistent one, receives
\* the splat and is kept.
IterateMut ==
    /\ pc = "loop"
    /\ i < num_points
    /\ \E ex \in {Exploration(i, num_points)} :
       \E noise \in {NoiseField(Draw(rng), NoiseStd(ex), energy_current.h,
                                energy_current.w)} :
       \E noisy \in {BroadcastAdd(energy_current, noise)} :
       \E pos_flat \in {ArgMin(noisy)} :
       \E y \in {pos_flat \div I.w} :
       \E x \in {pos_flat % I.w} :
          /\ exploration' = ex
          /\ rng' = Advance(rng)
          /\ energy_current' =
                MarkPlaced(BroadcastAdd(noisy, energy_splat(kernel, y, x)), y, x)
          /\ samples' = Append(samples, <<y, x, I.v[y * I.w + x]>>)
          /\ final_stipple' = SetAt(final_stipple, y, x, 0)
          /\ UNCHANGED err
          /\ pc' = "loop"
    /\ i' = i + 1
    /\ UNCHANGED <<vcIn, I, importance, kernel, num_points, run, first,
                   impVars, maskVars>>

\* Lines 126-143: one iteration of the loop.
Iterate ==
    /\ pc = "loop"
    /\ i < num_points
    /\ \E ex \in {Exploration(i, num_points)} :
       \E noise \in {NoiseField(Draw(rng), NoiseStd(ex), energy_current.h,
                                energy_current.w)} :
       \E pos_flat \in {ArgMin(BroadcastAdd(energy_current, noise))} :
          /\ exploration' = ex
          /\ rng' = Advance(rng)
          /\ PlacePoint(pos_flat \div I.w, pos_flat % I.w)
    /\ i' = i + 1
    /\ UNCHANGED <<vcIn, I, importance, kernel, num_points, run, first,
                   impVars, maskVars>>

\* Line 145: the loop is over; return final_stipple, np.array(samples).
Return ==
    /\ pc = "loop"
    /\ i >= num_points
    /\ pc' = "done"
    /\ UNCHANGED <<vcIn, vcState, err, run, first, impVars, maskVars>>

\* ------------------------------------------------------------------ inputs

\* The draws of one run that may be non-zero fields: the first NoiseIters.
NoiseIters == 2

\* The standard-normal deviates a non-zero draw may take at its cell.
NoiseZ == {-4, 3}

NoiseChoices ==
    {ZeroDraw} \cup {[cell |-> c, z |-> z] : c \in {"centre", "last"}, z \in NoiseZ}

Seeds == [1 .. NoiseIters -> NoiseChoices]

ZeroSeed == [k \in 1 .. NoiseIters |-> ZeroDraw]

\* A grid of one tone, and a left-to-right ramp that leaves [0, 1] at both ends.
Ramp(h, w) ==
    [h |-> h, w |-> w,
     v |-> [c \in 0 .. (h * w - 1) |-> (((c % w) * 1200) \div w) - 100]]

\* A top-to-bottom ramp within [0, 1].
RowRamp(h, w) ==
    [h |-> h, w |-> w,
     v |-> [c \in 0 .. (h * w - 1) |-> ((c \div w) * One) \div h]]

\* The input grid of a call: one tone, or the ramp.
Image(tone, d) == IF tone = "flat" THEN Full(d[1], d[2], 500) ELSE Ramp(d[1], d[2])

\* The supplied importance grid of a call: none, or a ramp of shape e.
Supplied(e) == IF e = <<>> THEN NoneGrid ELSE RowRamp(e[1], e[2])

\* Requested fractions, in thousandths.
Percentages == {-100, 0, 5, 30, 500}

\* Fractions that ask for every pixel, and for more.
FullPercentages == {1000, 1020}

FewPercentages == {0, 30}

\* Shapes of the input grid besides 10 x 10.
OtherShapes == {<<10, 13>>, <<20, 10>>, <<9, 10>>, <<10, 5>>, <<3, 3>>, <<1, 1>>}

\* Shapes of a supplied importance grid that differ from the input's (h, w).
MismatchShapes(h, w) ==
    {<<1, 1>>, <<1, w>>, <<h, 1>>, <<h + 2, w>>, <<h, w + 1>>, <<h - 1, w - 1>>,
     <<h \div 2, w>>, <<h, w \div 2>>, <<2 * h, 2 * w>>} \ {<<h, w>>}

Call(t, d, p, e, s) == [tone |-> t, shape |-> d, pct |-> p, imp |-> e, seed |-> s]

\* The calls checked: every fraction up to a half under every seed on
\* 10 x 10 grids, with and without a supplied importance grid; the full
\* fractions; other shapes; mismatched importance.
Calls ==
    {Call(t, <<10, 10>>, p, e, s) : t \in {"flat", "ramp"}, p \in Percentages,
                                    e \in {<<>>, <<10, 10>>}, s \in Seeds}
    \cup
    {Call(t, <<10, 10>>, p, e, ZeroSeed) : t \in {"flat", "ramp"},
                                           p \in FullPercentages,
                                           e \in {<<>>, <<10, 10>>}}
    \cup
    {Call(t, d, p, <<>>, ZeroSeed) : t \in {"flat", "ramp"}, d \in OtherShapes,
                                     p \in FewPercentages}
    \cup
    UNION {{Call("flat", d, p, e, ZeroSeed)
              : e \in MismatchShapes(d[1], d[2]), p \in FewPercentages}
           : d \in {<<10, 10>>, <<10, 13>>, <<20, 10>>, <<3, 3>>}}

IdleImportance ==
    /\ gray_img = Unset
    /\ extreme_downweight = 0
    /\ mid_tone_boost = 0

IdleMask ==
    /\ stipple_img = Unset
    /\ mask_img = Unset
    /\ threshold = 0
    /\ masked_stipple = Unset

FreshLocals ==
    /\ I = Unset
    /\ importance = Unset
    /\ kernel = Unset
    /\ energy_current = Unset
    /\ final_stipple = Unset
    /\ samples = <<>>
    /\ num_points = 0
    /\ i = 0
    /\ exploration = NoExploration

\* A call of void_and_cluster, the generator seeded by the caller.
Init ==
    /\ \E c \in Calls :
        /\ input_img = Image(c.tone, c.shape)
        /\ percentage = c.pct
        /\ importance_img = Supplied(c.imp)
        /\ seed = c.seed
    /\ rng = seed
    /\ FreshLocals
    /\ pc = "setup"
    /\ err = "none"
    /\ run = 1
    /\ first = <<>>
    /\ IdleImportance
    /\ IdleMask

Next ==
    \/ Setup
    \/ Seed
    \/ Iterate
    \/ Return

Spec == Init /\ [][Next]_vars

\* ------------------------------------------- a repeated call, the same seed

\* The calls that are repeated.
DetCalls ==
    {Call(t, <<10, 10>>, p, e, s) : t \in {"flat", "ramp"}, p \in {0, 30, 500},
                                    e \in {<<>>, <<10, 10>>}, s \in Seeds}

InitDet ==
    /\ \E c \in DetCalls :
        /\ input_img = Image(c.tone, c.shape)
        /\ percentage = c.pct
        /\ importance_img = Supplied(c.imp)
        /\ seed = c.seed
    /\ rng = seed
    /\ FreshLocals
    /\ pc = "setup"
    /\ err = "none"
    /\ run = 1
    /\ first = <<>>
    /\ IdleImportance
    /\ IdleMask

\* The caller keeps the result, seeds the generator as before the first call
\* and calls again with the same arguments.  Nothing else is reset: the second
\* call finds whatever the first one left.
Rerun ==
    /\ pc = "done"
    /\ run = 1
    /\ first' = <<final_stipple, samples>>
    /\ run' = 2
    /\ rng' = seed
    /\ pc' = "setup"
    /\ UNCHANGED <<vcIn, I, importance, kernel, energy_current, final_stipple,
                   samples, num_points, i, exploration, err, impVars, maskVars>>

NextDet ==
    \/ Setup
    \/ Seed
    \/ Iterate
    \/ Return
    \/ Rerun

SpecDet == InitDet /\ [][NextDet]_vars

\* ------------------------------------------- compute_importance, on its own

\* Cells of the grids given to compute_importance.
ImpCells == 3

\* Tones of those grids, in thousandths.
Tones == {0, 200, 400, 650, 900, 1000}

\* Values of extreme_downweight and of mid_tone_boost, within [0, 1].
Strengths == {0, 500, 1000}

IdleCall ==
    /\ input_img = Unset
    /\ percentage = 0
    /\ importance_img = NoneGrid
    /\ seed = <<>>
    /\ rng = <<>>
    /\ I = Unset
    /\ kernel = Unset
    /\ energy_current = Unset
    /\ final_stipple = Unset
    /\ samples = <<>>
    /\ num_points = 0
    /\ i = 0
    /\ exploration = NoExploration
    /\ run = 1
    /\ first = <<>>

InitImportance ==
    /\ \E f \in [0 .. (ImpCells - 1) -> Tones] :
          gray_img = [h |-> 1, w |-> ImpCells, v |-> f]
    /\ extreme_downweight \in Strengths
    /\ mid_tone_boost \in Strengths
    /\ importance = Unset
    /\ pc = "call"
    /\ err = "none"
    /\ IdleCall
    /\ IdleMask

CallImportance ==
    /\ pc = "call"
    /\ importance' = compute_importance(gray_img, extreme_downweight, mid_tone_boost)
    /\ pc' = "done"
    /\ UNCHANGED <<vcIn, rng, I, kernel, energy_current, final_stipple, samples,
                   num_points, i, exploration, err, run, first, impVars, maskVars>>

NextImportance == CallImportance

SpecImportance == InitImportance /\ [][NextImportance]_vars

\* ---------------------------------------- create_masked_stipple, on its own

\* Cells of the small grids given to create_masked_stipple.
MaskCells == 3

MaskRegionsMut(mask, thr) == [c \in Cells(mask) |-> mask.v[c] <= thr]

\* mask_regions = mask_img < threshold
MaskRegions(mask, thr) == [c \in Cells(mask) |-> mask.v[c] < thr]

\* g[where] = x for a boolean grid of g's shape
AssignWhere(g, where, x) ==
    [g EXCEPT !.v = [c \in Cells(g) |-> IF where[c] THEN x ELSE g.v[c]]]

\* The body of create_masked_stipple once the shapes are known to agree.
create_masked_stipple(stipple, mask, thr) ==
    AssignWhere(stipple, MaskRegions(mask, thr), One)

\* The 10 x 10 grid that is a in its left half and b in its right half.
Halves(a, b) ==
    [h |-> 10, w |-> 10, v |-> [c \in 0 .. 99 |-> IF c % 10 < 5 THEN a ELSE b]]

InitMask ==
    /\ \/ /\ \E f \in [0 .. (MaskCells - 1) -> {0, One}] :
                stipple_img = [h |-> 1, w |-> MaskCells, v |-> f]
          /\ \E f \in [0 .. (MaskCells - 1) -> {0, 300, 500, One}] :
                mask_img = [h |-> 1, w |-> MaskCells, v |-> f]
       \/ /\ stipple_img = Full(10, 10, 0)
          /\ mask_img = Halves(0, One)
       \/ /\ stipple_img \in {Full(1, MaskCells, 0), Full(2, 2, 0)}
          /\ mask_img \in {Full(MaskCells, 1, 0), Full(1, 1, One), Full(2, 3, 0)}
    /\ threshold \in {300, 500}
    /\ masked_stipple = Unset
    /\ importance = Unset
    /\ pc = "call"
    /\ err = "none"
    /\ IdleCall
    /\ IdleImportance

CallMask ==
    /\ pc = "call"
    /\ IF Shape(stipple_img) # Shape(mask_img)
       THEN /\ Raise("ValueError")
            /\ UNCHANGED masked_stipple
       ELSE /\ masked_stipple' = create_masked_stipple(stipple_img, mask_img, threshold)
            /\ pc' = "done"
            /\ UNCHANGED err
    /\ UNCHANGED <<vcIn, vcState, run, first, impVars, stipple_img, mask_img,
                   threshold>>

NextMask == CallMask

SpecMask == InitMask /\ [][NextMask]_vars

\* ------------------------------------------------------------------ claims

\* The call of void_and_cluster has returned.
Returned == pc = "done"

\* The cells of the stipple grid that hold 0.0.
ZeroCells(g) == {c \in Cells(g) : g.v[c] = 0}

\* The coordinates of the samples, in order.
Coord(k) == <<samples[k][1], samples[k][2]>>

NoRepeatedCoord ==
    \A a, b \in 1 .. Len(samples) : a # b => Coord(a) # Coord(b)

\* floor(H * W * percentage), or 0 for percentage <= 0.
TargetCount ==
    IF percentage <= 0 THEN 0 ELSE (Size(input_img) * percentage) \div One

\* C1: when void_and_cluster returns, the number of 0.0 cells of the stipple
\* grid is floor(H*W*percentage) (0 for percentage <= 0) and is the length of
\* the sample list; with a target of 0 the grid is all 1.0 and the list empty.
C1_ZeroCellsEqualTarget ==
    Returned =>
        /\ Cardinality(ZeroCells(final_stipple)) = TargetCount
        /\ Len(samples) = TargetCount

\* C2: in a run whose target count is at most half of the cells, whatever
\* noise is drawn, no (row, col) appears twice in the sample list, at any
\* point of the run.
C2_NoCoordinateTwice ==
    (pc \in {"loop", "done"} /\ 2 * num_points <= Size(I)) => NoRepeatedCoord

\* C2 witness: a run of exactly half of the cells has returned, its first
\* noisy draw having pulled at the cell the seed step had placed.
C2_Witness ==
    /\ Returned
    /\ 2 * num_points = Size(I)
    /\ Len(samples) = num_points
    /\ seed[1].cell = "centre"
    /\ Coord(1) = <<(I.h \div 2) - 1, (I.w \div 2) - 1>>

\* The window of the seed step: rows and columns within r of the centre,
\* r = min(20, H // 10, W // 10), the far edge excluded.
InSeedWindow(y, x) ==
    LET r == Min2(20, Min2(input_img.h \div 10, input_img.w \div 10))
        cy == input_img.h \div 2
        cx == input_img.w \div 2
    IN  /\ cy - r <= y /\ y < cy + r
        /\ cx - r <= x /\ x < cx + r

\* The energy field the seed step reads: -importance * content_bias.
InitialEnergy(y, x) == -(importance.v[y * importance.w + x] * content_bias)

\* C3: for every grid shape, the seed step yields a first sample, inside the
\* window about the centre and inside the grid, of minimum energy in the
\* window, the first such in row-major order.
C3_SeedIsWindowMinimum ==
    (pc \in {"loop", "done", "error"} /\ importance_img = NoneGrid) =>
        /\ Len(samples) >= 1
        /\ InSeedWindow(Coord(1)[1], Coord(1)[2])
        /\ InGrid(input_img, Coord(1)[1], Coord(1)[2])
        /\ \A y \in 0 .. (input_img.h - 1), x \in 0 .. (input_img.w - 1) :
              InSeedWindow(y, x) =>
                 \/ InitialEnergy(y, x) > InitialEnergy(Coord(1)[1], Coord(1)[2])
                 \/ /\ InitialEnergy(y, x) = InitialEnergy(Coord(1)[1], Coord(1)[2])
                    /\ y * input_img.w + x >= Coord(1)[1] * input_img.w + Coord(1)[2]

\* C4: for percentage >= 1 the call returns at most H*W samples and no pixel
\* is selected twice.
C4_CappedByGridSize ==
    (Returned /\ percentage >= One) =>
        /\ Len(samples) <= Size(input_img)
        /\ NoRepeatedCoord

\* The supplied importance grid's shape differs from the input's.
ShapeMismatch ==
    /\ importance_img # NoneGrid
    /\ Shape(importance_img) # Shape(input_img)

\* C5: with a supplied importance grid of another shape the call never gets
\* past the seed step: it neither places a point nor returns, and it ends in
\* an error; the energy field is never a broadcast of the importance grid.
C5_ShapeMismatchFails ==
    ShapeMismatch =>
        /\ pc \in {"setup", "seed", "error"}
        /\ samples = <<>>
        /\ pc # "setup" => ZeroCells(final_stipple) = {}
        /\ pc # "setup" => Shape(energy_current) = Shape(importance_img)
        /\ pc = "error" => err \in {"ValueError", "IndexError"}

\* C5 witness: a call with a mismatched importance grid that found a
\* non-empty seed window has failed at the addition of the splat.
C5_Witness ==
    /\ ShapeMismatch
    /\ pc = "error"
    /\ err = "ValueError"
    /\ Size(SeedRegion(energy_current, I.h, I.w)) > 0

\* C6: a call with a negative percentage does not return a result.
C6_NegativePercentageFails == percentage < 0 => ~Returned

\* C7: every value of the grid compute_importance returns is within [0, 1].
C7_ImportanceWithinUnit ==
    Returned => \A c \in Cells(importance) :
                    0 <= importance.v[c] /\ importance.v[c] <= One

\* C8: create_masked_stipple returns a grid of the inputs' shape that is 1.0
\* where the mask is below the threshold and the stipple grid's value where
\* the mask is at or above it.
C8_MaskedCells ==
    Returned =>
        /\ Shape(masked_stipple) = Shape(stipple_img)
        /\ \A c \in Cells(stipple_img) :
              /\ mask_img.v[c] < threshold => masked_stipple.v[c] = One
              /\ mask_img.v[c] >= threshold => masked_stipple.v[c] = stipple_img.v[c]

\* C8 witness: the all-0.0 10 x 10 grid under the mask that is 0.0 on the left
\* and 1.0 on the right, threshold 0.5: left half 1.0, right half 0.0.
C8_Witness ==
    /\ Returned
    /\ stipple_img = Full(10, 10, 0)
    /\ mask_img = Halves(0, One)
    /\ threshold = 500
    /\ masked_stipple = Halves(One, 0)

\* C9: the repetition of a call, with the same arguments and the generator
\* seeded alike, returns the stipple grid and the sample list of the first
\* call, in the same order.
C9_SameSeedSameResult ==
    (run = 2 /\ Returned) => <<final_stipple, samples>> = first

\* C9 witness: a repeated call of several points, with noise that was not
\* all zero, has returned.
C9_Witness ==
    /\ run = 2
    /\ Returned
    /\ Len(samples) = 50
    /\ seed[1].cell = "last"
    /\ seed[2].cell = "centre"

\* The index of the last iteration that ran.
LastIndex == Len(samples) - 1

IterationRan == pc \in {"loop", "done"} /\ Len(samples) >= 2

PlacedCells == {samples[k][1] * I.w + samples[k][2] : k \in 1 .. Len(samples)}

\* The value at flat index c of the kernel shifted toroidally so that its
\* peak lies on the k-th placed coordinate.
ShiftedKernelAt(c, k) ==
    kernel.v[(((c \div kernel.w) - samples[k][1]) % kernel.h) * kernel.w
             + (((c % kernel.w) - samples[k][2]) % kernel.w)]

RECURSIVE SplatSum(_, _)
\* The sum at flat index c of the splats of the first k placements.
SplatSum(c, k) ==
    IF k = 0 THEN 0 ELSE SplatSum(c, k - 1) + ShiftedKernelAt(c, k)

\* C11: after k placements, whatever noise was drawn, the persistent energy
\* field is +infinity at every placed coordinate and elsewhere equals the
\* initial field, -importance * content_bias, plus the sum of the kernel
\* splats shifted toroidally to each of the k placed coordinates.
C11_EnergyIsInitialPlusSplats ==
    (pc \in {"loop", "done"}) =>
        /\ Shape(energy_current) = Shape(importance)
        /\ \E placed \in {PlacedCells} :
              \A c \in Cells(energy_current) :
                 energy_current.v[c] =
                    IF c \in placed
                    THEN Inf
                    ELSE -(importance.v[c] * content_bias)
                         + SplatSum(c, Len(samples))

\* C11 witness: a run of three placements has returned; the noise of the
\* first iteration raised the last cell, which was then not placed, and the
\* noise of the second lowered it, which made it the third placement.
C11_Witness ==
    /\ Returned
    /\ Len(samples) = 3
    /\ seed[1] = [cell |-> "last", z |-> 3]
    /\ seed[2] = [cell |-> "last", z |-> -4]
    /\ Coord(2) # <<I.h - 1, I.w - 1>>
    /\ Coord(3) = <<I.h - 1, I.w - 1>>

====
